---------------------------- MODULE Spec2Model ----------------------------
(***************************************************************************)
(* A model of tinyetl: the TinyETL object of src/tinyetl/__init__.py (the  *)
(* current variant) and of src/tinyetl.py (the earlier variant).           *)
(*                                                                         *)
(* The constructor is modelled position by position (pc), the log          *)
(* decorator's wrapper as entry / body / exit steps, download_file as one  *)
(* step.  The instance is its attribute dictionary `self` (a function from *)
(* attribute names to values), the filesystem is `files`, loggers are      *)
(* named objects with a set of handler files.                              *)
(***************************************************************************)
EXTENDS Naturals, Sequences, FiniteSets, TLC

VARIABLES
    env,        \* Fabric's env object: a dict of attributes (tasks, dry_run, config)
    args,       \* the constructor's arguments
    pc,         \* position of the constructor / state of the instance
    self,       \* the instance's __dict__
    exit_msg,   \* message of the SystemExit that ended construction, <<>> if none
    files,      \* the filesystem's regular files: path -> content
    handlers,   \* logging's registry: logger name -> set of handler files
    stdout,     \* what print wrote
    wrapped,    \* names of the functions that were decorated with log
    call,       \* the wrapper invocation in progress
    result,     \* what the last finished call gave its caller
    invocations,\* per task: invocations of its wrapper
    body_runs,  \* per task: times its body was entered (the task's side effect)
    body_out,   \* how the body of the last wrapper invocation ended
    body_raises,\* per error: times a task body raised it
    dl_result,  \* what the last download_file call gave its caller
    gets,       \* number of GET requests issued
    response,   \* the last HTTP response
    ncalls      \* calls made so far

vars == <<env, args, pc, self, exit_msg, files, handlers, stdout, wrapped, call,
          result, invocations, body_runs, body_out, body_raises, dl_result, gets,
          response, ncalls>>

---------------------------------------------------------------------------
(* Bounds and the input universe *)

MaxCalls == 2

HTTP_OK == 200

EmptyDict == [x \in {} |-> TRUE]

NAME == "an_etl_job"
LONG_DESC == "long_desc"
USER_LOGGER == "user_logger"
NOW == "2016-01-01_00:00:00"

ExistingDirs == {"/var/log/etl", "/tmp/etl", "/srv/other_logs", "/srv/user"}
LogDirs == {"/var/log/etl", "/missing/logs"}
TmpDirs == {"/tmp/etl", "/missing/tmp"}
DryRunFlags == {"True", "False", "yes"}
TaskLists == {<< >>, <<"main">>}
TaskNames == {"say_hi", "trivial"}
RetVals == {"None", "sentinel"}
\* the error types that derive from Exception; SystemExit (sys.exit, Fabric's
\* abort) derives from BaseException alone
ExceptionTypes == {"ValueError", "IOError"}
Errors == {[type |-> "ValueError", msg |-> "bad row"],
           [type |-> "IOError", msg |-> "disk full"],
           [type |-> "SystemExit", msg |-> "abort"]}
Endpoints == {"http://example.org/data.csv"}
Statuses == {HTTP_OK, 404, 500}
Bodies == {<<1, 2>>, <<3>>}
Destinations == {<<"/tmp/etl", "data.csv">>}
UserLogFile == <<"/srv/user", "user.log">>

OptKw(k, V) == {EmptyDict} \cup {k :> v : v \in V}

KwargsSet ==
    {a @@ b @@ c @@ d @@ e :
        a \in OptKw("dry_run", BOOLEAN),
        b \in OptKw("logger", {USER_LOGGER}),
        c \in OptKw("log_dir", {"/srv/other_logs"}),
        d \in OptKw("tmpdata_dir", {"/srv/other_tmp"}),
        e \in OptKw("another_relevant_dir", {"/srv/relevant"})}

EnvSet ==
    {[tasks |-> t] : t \in TaskLists}
    \cup {("dry_run" :> f) @@ [tasks |-> t] : t \in TaskLists, f \in DryRunFlags}

NoCall == [pc |-> "idle", f |-> "none"]
NoResult == [kind |-> "none", type |-> "none", value |-> "none"]
NoResponse == [endpoint |-> "none", status |-> 0, body |-> << >>, dest |-> << >>]

Returned(v) == [kind |-> "return", type |-> "none", value |-> v]
Raised(t, m) == [kind |-> "raise", type |-> t, value |-> m]

---------------------------------------------------------------------------
(* Pure helpers of the current variant, src/tinyetl/__init__.py *)

\* the early return dropped
NoTasksNever(e) == FALSE

\* line 59: env.tasks == []
NoTasks(e) == e.tasks = << >>

\* usage(), lines 84-87
UsageMsg == <<"Please provide either 'True' or 'False' to dry_run.",
              "Usage: fab <tasks> --set dry_run=[True|False]">>

\* line 100: {'True': True, 'False': False}.get(dry_run)
BoolOf(s) == (("True" :> TRUE) @@ ("False" :> FALSE))[s]

\* a missing or malformed flag silently read as "not a dry run"
ThisIsADryRunDefaulting(e) ==
    IF "dry_run" \in DOMAIN e /\ e.dry_run = "True"
    THEN [raised |-> FALSE, value |-> TRUE]
    ELSE [raised |-> FALSE, value |-> FALSE]

\* _this_is_a_dry_run, lines 89-100: raises (through usage) or returns a bool
ThisIsADryRun(e) ==
    IF "dry_run" \notin DOMAIN e
    THEN [raised |-> TRUE, value |-> FALSE]
    ELSE IF e.dry_run \notin {"True", "False"}
         THEN [raised |-> TRUE, value |-> FALSE]
         ELSE [raised |-> FALSE, value |-> BoolOf(e.dry_run)]

\* the existence checks dropped
PathExistsAlways(p) == TRUE

\* os.path.exists, lines 66 and 71
PathExists(p) == p \in ExistingDirs

\* line 67
LogDirMsg(log_dir, tmpdata_dir) ==
    <<log_dir, " does not exist. Please create the log directory.">>

\* line 72: formats log_dir into the tmp data directory's message
TmpDirMsg(log_dir, tmpdata_dir) ==
    <<log_dir, " does not exist. Please create the tmp data directory.">>

\* lines 75-76
LogName(name) == <<name, "_", NOW>>
LogFile(log_dir, logname) == <<log_dir, logname, ".log">>

\* line 82: dict.update, the argument's keys win
DictUpdate(d, kw) == kw @@ d

\* a logging call on logger `lg`: every handler file gets the record
Emit(fs, hs, lg, rec) ==
    [p \in DOMAIN fs |-> IF p \in hs[lg] THEN Append(fs[p], rec) ELSE fs[p]]

---------------------------------------------------------------------------
(* The constructor, src/tinyetl/__init__.py lines 49-82 *)

Init ==
    /\ env \in EnvSet
    /\ args \in [name : {NAME}, long_desc : {LONG_DESC}, log_dir : LogDirs,
                 tmpdata_dir : TmpDirs, kwargs : KwargsSet]
    /\ pc = "init_tasks"
    /\ self = EmptyDict
    /\ exit_msg = << >>
    /\ files = (UserLogFile :> << >>)
    /\ handlers = (NAME :> {}) @@ (USER_LOGGER :> {UserLogFile})
    /\ stdout = << >>
    /\ wrapped = {}
    /\ call = NoCall
    /\ result = NoResult
    /\ invocations = [f \in TaskNames |-> 0]
    /\ body_runs = [f \in TaskNames |-> 0]
    /\ body_out = NoResult
    /\ body_raises = [e \in Errors |-> 0]
    /\ dl_result = NoResult
    /\ gets = 0
    /\ response = NoResponse
    /\ ncalls = 0

UnchangedWorld ==
    UNCHANGED <<env, args, files, handlers, stdout, wrapped, call, result,
                invocations, body_runs, body_out, body_raises, dl_result, gets,
                response, ncalls>>

\* lines 59-60
InitCheckTasks ==
    /\ pc = "init_tasks"
    /\ pc' = IF NoTasks(env) THEN "ready" ELSE "init_dry_run"
    /\ UNCHANGED <<self, exit_msg>>
    /\ UnchangedWorld

\* lines 62-64
InitDryRun ==
    /\ pc = "init_dry_run"
    /\ LET r == ThisIsADryRun(env)
           s == ("long_desc" :> args.long_desc) @@ ("name" :> args.name) @@ self
       IN IF r.raised
          THEN /\ pc' = "exit"
               /\ exit_msg' = UsageMsg
               /\ self' = s
          ELSE /\ pc' = "init_log_dir"
               /\ self' = ("dry_run" :> r.value) @@ s
               /\ UNCHANGED exit_msg
    /\ UnchangedWorld

\* lines 66-69
InitLogDir ==
    /\ pc = "init_log_dir"
    /\ IF ~PathExists(args.log_dir)
       THEN /\ pc' = "exit"
            /\ exit_msg' = LogDirMsg(args.log_dir, args.tmpdata_dir)
            /\ UNCHANGED self
       ELSE /\ pc' = "init_tmpdata_dir"
            /\ self' = ("log_dir" :> args.log_dir) @@ self
            /\ UNCHANGED exit_msg
    /\ UnchangedWorld

\* lines 71-74
InitTmpdataDir ==
    /\ pc = "init_tmpdata_dir"
    /\ IF ~PathExists(args.tmpdata_dir)
       THEN /\ pc' = "exit"
            /\ exit_msg' = TmpDirMsg(args.log_dir, args.tmpdata_dir)
            /\ UNCHANGED self
       ELSE /\ pc' = "init_logger"
            /\ self' = ("tmpdata_dir" :> args.tmpdata_dir) @@ self
            /\ UNCHANGED exit_msg
    /\ UnchangedWorld

\* lines 75-77 and _create_logger, lines 102-110
InitLogger ==
    /\ pc = "init_logger"
    /\ LET logname == LogName(self.name)
           logfile == LogFile(self.log_dir, logname)
       IN /\ self' = ("logger" :> self.name) @@ ("logfile" :> logfile)
                     @@ ("logname" :> logname) @@ self
          /\ files' = IF logfile \in DOMAIN files THEN files
                      ELSE (logfile :> << >>) @@ files
          /\ handlers' = [handlers EXCEPT ![self.name] = @ \cup {logfile}]
    /\ pc' = "init_kwargs"
    /\ UNCHANGED <<env, args, exit_msg, stdout, wrapped, call, result, invocations,
                   body_runs, body_out, body_raises, dl_result, gets, response,
                   ncalls>>

\* line 82
InitKwargs ==
    /\ pc = "init_kwargs"
    /\ self' = DictUpdate(self, args.kwargs)
    /\ pc' = "ready"
    /\ UNCHANGED exit_msg
    /\ UnchangedWorld

---------------------------------------------------------------------------
(* The log decorator, src/tinyetl/__init__.py lines 112-128 *)

\* the dry-run test inverted
IsDryRunInverted(s) == ~s.dry_run

\* line 115: if self.dry_run
IsDryRun(s) == s.dry_run

\* line 116
DryRunLine(f) == <<"[DRY RUN] :: ", f, "()">>

\* line 118
CurrentInfo(f) == <<"Running ", f>>

\* line 120: self.logger.info(current_info)
InfoRecord(f) == [level |-> "INFO", msg |-> CurrentInfo(f)]

\* f called without returning its value
WrapperReturnDropped(v) == "None"

\* line 123: return f(*args, **kwargs)
WrapperReturn(v) == v

\* line 124: except Exception
Catches(e) == e.type \in ExceptionTypes

\* line 125: self.logger.exception(traceback.format_exc())
ExceptionRecord(e) == [level |-> "ERROR", msg |-> <<"Traceback", e.type, e.msg>>]

\* the error logged and swallowed
ReraiseSwallowed(e) == Returned("None")

\* line 126: raise Exception(e)
Reraise(e) == Raised("Exception", e.msg)

\* lines 112-113 and 128: log(f) only builds the wrapper
Decorate(f) ==
    /\ pc = "ready"
    /\ f \notin wrapped
    /\ wrapped' = wrapped \cup {f}
    /\ UNCHANGED <<env, args, pc, self, exit_msg, files, handlers, stdout, call,
                   result, invocations, body_runs, body_out, body_raises,
                   dl_result, gets, response, ncalls>>

\* lines 114-120: the wrapper up to the try
LogWrapper(f) ==
    /\ pc = "ready"
    /\ call.pc = "idle"
    /\ f \in wrapped
    /\ ncalls < MaxCalls
    /\ ncalls' = ncalls + 1
    /\ invocations' = [invocations EXCEPT ![f] = @ + 1]
    /\ body_out' = NoResult
    /\ IF "dry_run" \notin DOMAIN self
       THEN /\ result' = Raised("AttributeError", "dry_run")
            /\ UNCHANGED <<stdout, files, call>>
       ELSE IF IsDryRun(self)
       THEN /\ stdout' = Append(stdout, DryRunLine(f))
            /\ result' = Returned("None")
            /\ UNCHANGED <<files, call>>
       ELSE /\ stdout' = Append(stdout, CurrentInfo(f))
            /\ files' = Emit(files, handlers, self.logger, InfoRecord(f))
            /\ call' = [pc |-> "try", f |-> f]
            /\ result' = NoResult
    /\ UNCHANGED <<env, args, pc, self, exit_msg, handlers, wrapped, body_runs,
                   body_raises, dl_result, gets, response>>

\* line 123: the task body is entered
TaskBodyStart ==
    /\ call.pc = "try"
    /\ call' = [call EXCEPT !.pc = "body"]
    /\ body_runs' = [body_runs EXCEPT ![call.f] = @ + 1]
    /\ UNCHANGED <<env, args, pc, self, exit_msg, files, handlers, stdout, wrapped,
                   result, invocations, body_out, body_raises, dl_result, gets,
                   response, ncalls>>

\* line 123: the task body returns v
TaskBodyReturn(v) ==
    /\ call.pc = "body"
    /\ body_out' = Returned(v)
    /\ result' = Returned(WrapperReturn(v))
    /\ call' = NoCall
    /\ UNCHANGED <<env, args, pc, self, exit_msg, files, handlers, stdout, wrapped,
                   invocations, body_runs, body_raises, dl_result, gets, response,
                   ncalls>>

\* lines 123-126: the task body raises e
TaskBodyRaise(e) ==
    /\ call.pc = "body"
    /\ body_out' = Raised(e.type, e.msg)
    /\ body_raises' = [body_raises EXCEPT ![e] = @ + 1]
    /\ IF Catches(e)
       THEN /\ files' = Emit(files, handlers, self.logger, ExceptionRecord(e))
            /\ result' = Reraise(e)
       ELSE /\ result' = Raised(e.type, e.msg)
            /\ UNCHANGED files
    /\ call' = NoCall
    /\ UNCHANGED <<env, args, pc, self, exit_msg, handlers, stdout, wrapped,
                   invocations, body_runs, dl_result, gets, response, ncalls>>

---------------------------------------------------------------------------
(* timestamp and download_file, src/tinyetl/__init__.py lines 130-140 *)

\* lines 130-131
Timestamp ==
    /\ pc = "ready"
    /\ call.pc \in {"idle", "body"}
    /\ ncalls < MaxCalls
    /\ ncalls' = ncalls + 1
    /\ dl_result' = Returned(NOW)
    /\ UNCHANGED <<env, args, pc, self, exit_msg, files, handlers, stdout, wrapped,
                   call, result, invocations, body_runs, body_out, body_raises,
                   gets, response>>

\* line 136: r.status_code != 200
Failed(status) == status # HTTP_OK

\* line 137
DownloadRecord(endpoint, status) ==
    [level |-> "ERROR",
     msg |-> <<"Attempt to download ", endpoint, " failed with code ", status, ".">>]

\* the destination opened for appending
WriteFileAppending(fs, dest, content) ==
    IF dest \in DOMAIN fs THEN [fs EXCEPT ![dest] = @ \o content]
    ELSE (dest :> content) @@ fs

\* lines 139-140: open(file_to_write_to, "wb") and write
WriteFile(fs, dest, content) == (dest :> content) @@ fs

\* lines 133-140; called by the script or from inside a task body
DownloadFile(endpoint, dest, status, content) ==
    /\ pc = "ready"
    /\ call.pc \in {"idle", "body"}
    /\ ncalls < MaxCalls
    /\ ncalls' = ncalls + 1
    /\ gets' = gets + 1
    /\ response' = [endpoint |-> endpoint, status |-> status, body |-> content,
                    dest |-> dest]
    /\ IF Failed(status)
       THEN IF "logger" \notin DOMAIN self
            THEN /\ dl_result' = Raised("AttributeError", "logger")
                 /\ UNCHANGED files
            ELSE /\ files' = Emit(files, handlers, self.logger,
                                  DownloadRecord(endpoint, status))
                 /\ dl_result' = Returned("None")
       ELSE /\ files' = WriteFile(files, dest, content)
            /\ dl_result' = Returned("None")
    /\ UNCHANGED <<env, args, pc, self, exit_msg, handlers, stdout, wrapped, call,
                   result, invocations, body_runs, body_out, body_raises>>

Next ==
    \/ InitCheckTasks
    \/ InitDryRun
    \/ InitLogDir
    \/ InitTmpdataDir
    \/ InitLogger
    \/ InitKwargs
    \/ \E f \in TaskNames : Decorate(f)
    \/ \E f \in TaskNames : LogWrapper(f)
    \/ TaskBodyStart
    \/ \E v \in RetVals : TaskBodyReturn(v)
    \/ \E e \in Errors : TaskBodyRaise(e)
    \/ Timestamp
    \/ \E ep \in Endpoints, d \in Destinations, st \in Statuses, b \in Bodies :
          DownloadFile(ep, d, st, b)

Spec == Init /\ [][Next]_vars

---------------------------------------------------------------------------
(* The earlier variant, src/tinyetl.py *)

ConfigPaths == {"/etc/etl.cfg", "/etc/nologdir.cfg", "/etc/nosection.cfg",
                "/etc/badlogdir.cfg", "/etc/missing.cfg"}

\* the config files on disk, as SafeConfigParser reads them: section -> option -> value
ConfigFiles ==
    ("/etc/etl.cfg" :> [etlconfig |-> [logdir |-> "/var/log/etl"]])
    @@ ("/etc/badlogdir.cfg" :> [etlconfig |-> [logdir |-> "/missing/logs"]])
    @@ ("/etc/nologdir.cfg" :> [etlconfig |-> EmptyDict])
    @@ ("/etc/nosection.cfg" :> EmptyDict)

EnvSetV1 ==
    {e @@ c : e \in EnvSet, c \in OptKw("config", ConfigPaths)}

\* lines 34 and 37
DryRunMsgV1 == <<"Please provide either 'True' or 'False' to dry_run.">>

\* _this_is_a_dry_run, lines 29-40
ThisIsADryRunV1(e) ==
    IF "dry_run" \notin DOMAIN e
    THEN [raised |-> TRUE, value |-> FALSE]
    ELSE IF e.dry_run \notin {"True", "False"}
         THEN [raised |-> TRUE, value |-> FALSE]
         ELSE [raised |-> FALSE, value |-> BoolOf(e.dry_run)]

\* _parse_config and _verify_config_file, lines 42-71: the parser, or the error raised
ParseConfig(e) ==
    IF "config" \notin DOMAIN e
    THEN [raised |-> TRUE, msg |-> <<"Please provide a config file location to config.">>]
    ELSE IF e.config \notin DOMAIN ConfigFiles
    THEN [raised |-> TRUE, msg |-> <<"Please ensure a config file exists at: ">>]
    ELSE LET parser == ConfigFiles[e.config]
         IN IF "etlconfig" \notin DOMAIN parser
            THEN [raised |-> TRUE, msg |-> <<"NoSectionError", "etlconfig">>]
            ELSE IF "logdir" \notin DOMAIN parser.etlconfig
            THEN [raised |-> TRUE,
                  msg |-> <<"Please set the ", "logdir", " attribute in the config file.">>]
            ELSE [raised |-> FALSE, parser |-> parser]

\* the logger opened on the dry-run branch instead
OpensLoggerInverted(s) == s.dry_run

\* line 23: if not self.dry_run
OpensLogger(s) == ~s.dry_run

\* line 92
CallRecord(f) == [level |-> "INFO", msg |-> <<"Call ", f>>]

\* line 90
WouldHaveRun(f) == <<"I would have run ", f, " if this were the real deal!">>

InitV1 ==
    /\ env \in EnvSetV1
    /\ args = [name |-> NAME, long_desc |-> LONG_DESC, log_dir |-> "/var/log/etl",
               tmpdata_dir |-> "/tmp/etl", kwargs |-> EmptyDict]
    /\ pc = "v1_tasks"
    /\ self = EmptyDict
    /\ exit_msg = << >>
    /\ files = (UserLogFile :> << >>)
    /\ handlers = (NAME :> {}) @@ (USER_LOGGER :> {UserLogFile})
    /\ stdout = << >>
    /\ wrapped = {}
    /\ call = NoCall
    /\ result = NoResult
    /\ invocations = [f \in TaskNames |-> 0]
    /\ body_runs = [f \in TaskNames |-> 0]
    /\ body_out = NoResult
    /\ body_raises = [e \in Errors |-> 0]
    /\ dl_result = NoResult
    /\ gets = 0
    /\ response = NoResponse
    /\ ncalls = 0

\* lines 16-17
InitCheckTasksV1 ==
    /\ pc = "v1_tasks"
    /\ pc' = IF NoTasks(env) THEN "ready" ELSE "v1_dry_run"
    /\ UNCHANGED <<self, exit_msg>>
    /\ UnchangedWorld

\* lines 19-20
InitDryRunV1 ==
    /\ pc = "v1_dry_run"
    /\ LET r == ThisIsADryRunV1(env)
           s == ("name" :> args.name) @@ self
       IN IF r.raised
          THEN /\ pc' = "exit"
               /\ exit_msg' = DryRunMsgV1
               /\ self' = s
          ELSE /\ pc' = "v1_config"
               /\ self' = ("dry_run" :> r.value) @@ s
               /\ UNCHANGED exit_msg
    /\ UnchangedWorld

\* line 21
InitConfigV1 ==
    /\ pc = "v1_config"
    /\ LET r == ParseConfig(env)
       IN IF r.raised
          THEN /\ pc' = "exit"
               /\ exit_msg' = r.msg
               /\ UNCHANGED self
          ELSE /\ pc' = "v1_logger"
               /\ self' = ("config" :> r.parser) @@ self
               /\ UNCHANGED exit_msg
    /\ UnchangedWorld

\* lines 23-27 and _create_logger, lines 76-84
InitLoggerV1 ==
    /\ pc = "v1_logger"
    /\ IF OpensLogger(self)
       THEN LET logdir == self.config.etlconfig.logdir
                logname == LogName(self.name)
                logfile == LogFile(logdir, logname)
            IN IF PathExists(logdir)
               THEN /\ self' = ("logger" :> self.name) @@ ("logfile" :> logfile)
                               @@ ("logname" :> logname) @@ ("logdir" :> logdir)
                               @@ self
                    /\ files' = (logfile :> << >>) @@ files
                    /\ handlers' = [handlers EXCEPT ![self.name] = @ \cup {logfile}]
                    /\ pc' = "ready"
                    /\ UNCHANGED exit_msg
               ELSE \* logging.FileHandler raises IOError
                    /\ self' = ("logfile" :> logfile) @@ ("logname" :> logname)
                               @@ ("logdir" :> logdir) @@ self
                    /\ pc' = "exit"
                    /\ exit_msg' = <<"IOError", logfile>>
                    /\ UNCHANGED <<files, handlers>>
       ELSE /\ pc' = "ready"
            /\ UNCHANGED <<self, files, handlers, exit_msg>>
    /\ UNCHANGED <<env, args, stdout, wrapped, call, result, invocations,
                   body_runs, body_out, body_raises, dl_result, gets, response,
                   ncalls>>

\* lines 86-87 and 94
DecorateV1(f) ==
    /\ pc = "ready"
    /\ f \notin wrapped
    /\ wrapped' = wrapped \cup {f}
    /\ UNCHANGED <<env, args, pc, self, exit_msg, files, handlers, stdout, call,
                   result, invocations, body_runs, body_out, body_raises,
                   dl_result, gets, response, ncalls>>

\* lines 88-93: the wrapper up to the call of f
LogWrapperV1(f) ==
    /\ pc = "ready"
    /\ call.pc = "idle"
    /\ f \in wrapped
    /\ ncalls < MaxCalls
    /\ ncalls' = ncalls + 1
    /\ invocations' = [invocations EXCEPT ![f] = @ + 1]
    /\ body_out' = NoResult
    /\ IF "dry_run" \notin DOMAIN self
       THEN /\ result' = Raised("AttributeError", "dry_run")
            /\ UNCHANGED <<stdout, files, call, body_runs>>
       ELSE IF self.dry_run
       THEN /\ stdout' = Append(stdout, WouldHaveRun(f))
            /\ result' = Returned("None")
            /\ UNCHANGED <<files, call, body_runs>>
       ELSE IF "logger" \notin DOMAIN self
       THEN /\ result' = Raised("AttributeError", "logger")
            /\ UNCHANGED <<stdout, files, call, body_runs>>
       ELSE /\ files' = Emit(files, handlers, self.logger, CallRecord(f))
            /\ call' = [pc |-> "body", f |-> f]
            /\ body_runs' = [body_runs EXCEPT ![f] = @ + 1]
            /\ result' = NoResult
            /\ UNCHANGED stdout
    /\ UNCHANGED <<env, args, pc, self, exit_msg, handlers, wrapped, body_raises,
                   dl_result, gets, response>>

\* line 93: the body returns v
TaskBodyReturnV1(v) ==
    /\ call.pc = "body"
    /\ body_out' = Returned(v)
    /\ result' = Returned(v)
    /\ call' = NoCall
    /\ UNCHANGED <<env, args, pc, self, exit_msg, files, handlers, stdout, wrapped,
                   invocations, body_runs, body_raises, dl_result, gets, response,
                   ncalls>>

\* line 93: the body raises e, which leaves the wrapper as it is
TaskBodyRaiseV1(e) ==
    /\ call.pc = "body"
    /\ body_out' = Raised(e.type, e.msg)
    /\ body_raises' = [body_raises EXCEPT ![e] = @ + 1]
    /\ result' = Raised(e.type, e.msg)
    /\ call' = NoCall
    /\ UNCHANGED <<env, args, pc, self, exit_msg, files, handlers, stdout, wrapped,
                   invocations, body_runs, dl_result, gets, response, ncalls>>

NextV1 ==
    \/ InitCheckTasksV1
    \/ InitDryRunV1
    \/ InitConfigV1
    \/ InitLoggerV1
    \/ \E f \in TaskNames : DecorateV1(f)
    \/ \E f \in TaskNames : LogWrapperV1(f)
    \/ \E v \in RetVals : TaskBodyReturnV1(v)
    \/ \E e \in Errors : TaskBodyRaiseV1(e)

SpecV1 == InitV1 /\ [][NextV1]_vars

---------------------------------------------------------------------------
(* Properties *)

\* an instance whose constructor ran to the end with at least one requested task
Constructed == pc = "ready" /\ env.tasks # << >>
DryRunInstance == Constructed /\ self.dry_run = TRUE
LiveInstance == Constructed /\ self.dry_run = FALSE

FlagValid == "dry_run" \in DOMAIN env /\ env.dry_run \in {"True", "False"}
LogDirThere == args.log_dir \in ExistingDirs
TmpDirThere == args.tmpdata_dir \in ExistingDirs

Count(seq, rec) == Cardinality({i \in 1..Len(seq) : seq[i] = rec})

\* the files the instance's logger writes to
SinkFiles == handlers[self.logger]

\* C1: on an instance whose dry_run is true, no wrapper invocation is ever inside
\* a task body and no body has run; each invocation leaves every file (the log
\* sink included) as it was, prints one "[DRY RUN]" line and returns None.
C1_DryRunSkipsBody ==
    /\ [](DryRunInstance =>
            /\ call = NoCall
            /\ \A f \in TaskNames : body_runs[f] = 0)
    /\ [][(DryRunInstance /\ invocations' # invocations) =>
            /\ files' = files
            /\ handlers' = handlers
            /\ body_runs' = body_runs
            /\ call' = NoCall
            /\ result' = Returned("None")
            /\ \E f \in TaskNames :
                 /\ invocations' = [invocations EXCEPT ![f] = @ + 1]
                 /\ stdout' = Append(stdout, <<"[DRY RUN] :: ", f, "()">>)]_vars

C1_Witness ==
    /\ DryRunInstance
    /\ \E f \in TaskNames : invocations[f] = 2
    /\ result = Returned("None")
    /\ Len(stdout) = 2

\* C2: on an instance whose dry_run is false, the log sink holds exactly one
\* INFO "Running <task>" record per invocation of that task's wrapper, a body
\* has been entered only after its invocation's record was written, and a body
\* that returned gives the wrapper's caller the same value.
C2_RunningLineThenBody ==
    LiveInstance =>
        /\ SinkFiles # {}
        /\ \A f \in TaskNames :
             /\ \A p \in SinkFiles :
                  Count(files[p], [level |-> "INFO", msg |-> <<"Running ", f>>])
                     = invocations[f]
             /\ body_runs[f] =
                  invocations[f] - (IF call.pc = "try" /\ call.f = f THEN 1 ELSE 0)
        /\ (call.pc = "idle" /\ body_out.kind = "return") =>
               result = Returned(body_out.value)

C2_Witness ==
    /\ LiveInstance
    /\ call.pc = "idle"
    /\ body_out = Returned("sentinel")
    /\ result = Returned("sentinel")
    /\ \E f \in TaskNames : invocations[f] = 2

TraceRecord(e) == [level |-> "ERROR", msg |-> <<"Traceback", e.type, e.msg>>]

\* C3 (as stated): on an instance whose dry_run is false, every error a task
\* body raised has its ERROR trace record in the log sink, and the wrapper's
\* caller got an error with the same message, never a normal return.
C3_AnyErrorLogged ==
    LiveInstance =>
        /\ \A e \in Errors : \A p \in SinkFiles :
             Count(files[p], TraceRecord(e)) = body_raises[e]
        /\ (call.pc = "idle" /\ body_out.kind = "raise") =>
               (result.kind = "raise" /\ result.value = body_out.value)

\* C3 (amended): the same for the errors that derive from Exception; any other
\* error a body raises (SystemExit) still leaves the wrapper as an error with the
\* same message.
C3_ExceptionLogged ==
    LiveInstance =>
        /\ \A e \in Errors : \A p \in SinkFiles :
             e.type \in ExceptionTypes =>
                Count(files[p], TraceRecord(e)) = body_raises[e]
        /\ (call.pc = "idle" /\ body_out.kind = "raise") =>
               (result.kind = "raise" /\ result.value = body_out.value)

C3_Witness ==
    /\ LiveInstance
    /\ call.pc = "idle"
    /\ body_out = Raised("ValueError", "bad row")
    /\ result = Raised("Exception", "bad row")

\* C4: with a task requested, once the flag has been resolved: "True" gave true
\* and "False" gave false, and every other or missing flag ended construction
\* with the usage error, no dry_run having been set.
C4_DryRunResolution ==
    (env.tasks # << >> /\ pc \notin {"init_tasks", "init_dry_run"}) =>
        /\ FlagValid =>
             (pc \in {"init_log_dir", "init_tmpdata_dir", "init_logger", "init_kwargs"}
                => self.dry_run = (env.dry_run = "True"))
        /\ ~FlagValid =>
             (pc = "exit" /\ exit_msg = UsageMsg /\ "dry_run" \notin DOMAIN self)

C4_Witness ==
    /\ pc = "init_log_dir"
    /\ env.tasks # << >>
    /\ env.dry_run = "True"
    /\ self.dry_run = TRUE

\* C5: with no task requested, construction returns at once whatever the flag
\* and the directories are: nothing is set on the instance, nothing is raised,
\* no log file is created, no handler is attached; log can decorate any task.
C5_NoTasksNoInit ==
    (env.tasks = << >> /\ pc # "init_tasks") =>
        /\ pc = "ready"
        /\ self = EmptyDict
        /\ exit_msg = << >>
        /\ handlers[NAME] = {}
        /\ DOMAIN files \subseteq ({UserLogFile} \cup Destinations)
        /\ \A f \in TaskNames \ wrapped : ENABLED Decorate(f)

C5_Witness ==
    /\ env.tasks = << >>
    /\ pc = "ready"
    /\ ~FlagValid
    /\ ~LogDirThere
    /\ ~TmpDirThere
    /\ wrapped = TaskNames

\* C6: with a task requested and a valid flag, a construction that failed on a
\* missing directory names that directory in its message: the log directory if
\* it is missing, else the temp-data directory.
C6_MessageNamesMissingPath ==
    (pc = "exit" /\ env.tasks # << >> /\ FlagValid) =>
        /\ ~LogDirThere => exit_msg[1] = args.log_dir
        /\ (LogDirThere /\ ~TmpDirThere) => exit_msg[1] = args.tmpdata_dir

\* C7: construction stops at the first failing check, in the order flag, log
\* directory, temp-data directory; a directory is stored only after the checks
\* before it passed, and the log file is opened only after all three passed, so
\* a construction that ended in an error opened none.
C7_ChecksInOrder ==
    /\ pc = "exit" =>
         /\ handlers[NAME] = {}
         /\ DOMAIN files = {UserLogFile}
         /\ "logger" \notin DOMAIN self
         /\ IF ~FlagValid THEN exit_msg = UsageMsg
            ELSE IF ~LogDirThere
            THEN exit_msg[2] = " does not exist. Please create the log directory."
            ELSE /\ ~TmpDirThere
                 /\ exit_msg[2] = " does not exist. Please create the tmp data directory."
    /\ "log_dir" \in DOMAIN self => (FlagValid /\ LogDirThere)
    /\ "tmpdata_dir" \in DOMAIN self => (FlagValid /\ LogDirThere /\ TmpDirThere)
    /\ handlers[NAME] # {} => (FlagValid /\ LogDirThere /\ TmpDirThere)

C7_Witness ==
    /\ pc = "exit"
    /\ ~FlagValid
    /\ ~LogDirThere
    /\ ~TmpDirThere
    /\ exit_msg = UsageMsg

\* what one download_file call must have done
DownloadEffect ==
    /\ gets' = gets + 1
    /\ dl_result' = Returned("None")
    /\ IF response'.status = 200
       THEN /\ response'.dest \in DOMAIN files'
            /\ files'[response'.dest] = response'.body
       ELSE /\ (response'.dest \in DOMAIN files') = (response'.dest \in DOMAIN files)
            /\ response'.dest \in DOMAIN files =>
                  files'[response'.dest] = files[response'.dest]
            /\ "logger" \in DOMAIN self
            /\ SinkFiles # {}
            /\ \A p \in SinkFiles :
                 files'[p] = Append(files[p],
                    [level |-> "ERROR",
                     msg |-> <<"Attempt to download ", response'.endpoint,
                               " failed with code ", response'.status, ".">>])

\* C8 (as stated): every download_file call issues one GET and returns
\* normally; on status 200 the destination holds the response body, on any
\* other status the destination is as before and the log sink got one error
\* record naming the endpoint and the status.
C8_DownloadAnyInstance == [][gets' # gets => DownloadEffect]_vars

\* C8 (amended): the same, for calls on an instance constructed with at least
\* one requested task.
C8_DownloadConstructed == [][(Constructed /\ gets' # gets) => DownloadEffect]_vars

C8_Witness ==
    /\ Constructed
    /\ gets = 2
    /\ response.status = 404
    /\ dl_result = Returned("None")
    /\ response.dest \in DOMAIN files

\* C9: after construction with a task requested, dry_run is the boolean resolved
\* from the flag, log_dir and tmpdata_dir are the validated arguments and logger
\* is the logger opened on the log file, whatever the extra keyword attributes.
C9_ReservedFieldsKept ==
    Constructed =>
        /\ self.dry_run = (env.dry_run = "True")
        /\ self.log_dir = args.log_dir
        /\ self.tmpdata_dir = args.tmpdata_dir
        /\ self.logger = args.name
        /\ handlers[self.logger] = {self.logfile}

\* C10: in the earlier variant, an instance constructed with a task requested
\* has a logger with an open log file whenever its dry_run is false, no wrapper
\* invocation failed for want of a logger, and on a dry run nothing was logged.
C10_LoggerThereWhenUsed ==
    Constructed =>
        /\ "dry_run" \in DOMAIN self
        /\ ~self.dry_run =>
             /\ "logger" \in DOMAIN self
             /\ handlers[self.logger] # {}
             /\ \A f \in TaskNames : \A p \in handlers[self.logger] :
                  Count(files[p], [level |-> "INFO", msg |-> <<"Call ", f>>])
                     = invocations[f]
        /\ self.dry_run =>
             /\ \A p \in DOMAIN files : files[p] = << >>
             /\ \A f \in TaskNames : body_runs[f] = 0
        /\ result # Raised("AttributeError", "logger")

C10_Witness ==
    /\ Constructed
    /\ ~self.dry_run
    /\ \E f \in TaskNames : invocations[f] = 2
    /\ result.kind = "return"

=============================================================================
